---- MODULE Spec2Model ----
(***************************************************************************)
(* State-machine model of odl/space/fspace.py: FunctionSet / FunctionSpace *)
(* and their element type Vector.  Elements are objects with the fields    *)
(* _space, _call_impl and, once _lincomb has rebound it, an instance       *)
(* attribute _call that shadows the method Vector._call.  Python objects   *)
(* handed to a call are tagged records; numpy arrays live in a heap of     *)
(* blocks so that the in-place multiply and add of lincomb_call act on     *)
(* shared memory exactly where Python shares it.                           *)
(***************************************************************************)
EXTENDS Integers, Sequences, FiniteSets, TLC

VARIABLES elems, snap, last, nops

vars == <<elems, snap, last, nops>>

(***************************************************************************)
(* Bounds of the model.                                                    *)
(***************************************************************************)
MaxOps == 4          \* operations performed in one behaviour
MaxCoord == 2        \* coordinates of supplied points range over 0..MaxCoord
MaxCoeff == 2        \* scalars a, b range over 0..MaxCoeff
RecursionLimit == 12 \* depth at which Python raises RecursionError

NDim == 2            \* dimension of the interval-product domains
DomLo == 0           \* lower corner of every domain, on each axis

DomHi == 1           \* upper corner: the domain is [0,1] x [0,1]

Coords == 0..MaxCoord
Coeffs == 0..MaxCoeff
Points == {<<p, q>> : p \in Coords, q \in Coords}

(***************************************************************************)
(* Python values.                                                          *)
(***************************************************************************)
Num(n) == [t |-> "num", n |-> n]          \* a scalar of the field
None == [t |-> "none"]                    \* Python None (not in any range)
Lst(s) == [t |-> "list", l |-> s]         \* a list / tuple of scalars
Vec(b) == [t |-> "vec", b |-> b]          \* 1-D ndarray (or row view), block b
Mat(bs) == [t |-> "mat", rows |-> bs]     \* 2-D ndarray, one block per row
Err(e) == [t |-> "err", e |-> e]          \* a raised exception

IsErr(v) == v.t = "err"

\* The state threaded through one evaluation: the array heap and the log of
\* the user callables entered so far.
R(v, st) == [v |-> v, st |-> st]

\* What an observer sees of a value: array contents instead of block ids.
Resolve(v, heap) ==
  CASE v.t = "vec" -> [t |-> "arr", c |-> heap[v.b]]
    [] v.t = "mat" -> [t |-> "arr2", c |-> [i \in 1..Len(v.rows) |-> heap[v.rows[i]]]]
    [] OTHER -> v

(***************************************************************************)
(* Arguments as the caller writes them, and their allocation.              *)
(***************************************************************************)
\* Scalars and lists are written as Num and Lst; arrays by their contents.
DArr(c) == [t |-> "arr", c |-> c]
DArr2(c) == [t |-> "arr2", c |-> c]

Blocks(d) ==
  CASE d.t = "arr" -> <<d.c>>
    [] d.t = "arr2" -> d.c
    [] OTHER -> <<>>

RECURSIVE Flatten(_)
Flatten(ds) == IF ds = <<>> THEN <<>> ELSE Blocks(Head(ds)) \o Flatten(Tail(ds))

Offset(ds, i) == Len(Flatten(SubSeq(ds, 1, i - 1)))

ArgValue(ds, i) ==
  LET d == ds[i]
      off == Offset(ds, i)
  IN CASE d.t = "arr" -> Vec(off + 1)
       [] d.t = "arr2" -> Mat([j \in 1..Len(d.c) |-> off + j])
       [] OTHER -> d

MkArgs(ds) == [j \in 1..Len(ds) |-> ArgValue(ds, j)]

(***************************************************************************)
(* The argument lists of the modelled calls.                               *)
(***************************************************************************)
ArrRows == {<<1, 1>>, <<1, MaxCoord>>}

TupleArgs == {<<Num(p[1]), Num(p[2])>> : p \in Points}
ListArgs == {<<Lst(p)>> : p \in Points}
ArrayPointArgs == {<<DArr(p)>> : p \in ArrRows}
PointListArgs == {<<DArr2(<<r>>)>> : r \in ArrRows}
                   \cup {<<DArr2(<<r1, r2>>)>> : r1 \in ArrRows, r2 \in ArrRows}
MeshArgs == {<<DArr(r1), DArr(r2)>> : r1 \in ArrRows, r2 \in ArrRows}
Mesh2Args == {<<DArr2(<<r1>>), DArr2(<<r2>>)>> : r1 \in ArrRows, r2 \in ArrRows}
OddArgs == {<<>>, <<Num(1)>>, <<DArr2(<< <<1>> >>)>>, <<Lst(<<1, 1>>), Num(1)>>}

ArgLists == TupleArgs \cup ListArgs \cup ArrayPointArgs \cup PointListArgs
              \cup MeshArgs \cup Mesh2Args \cup OddArgs

(***************************************************************************)
(* Python and numpy primitives used by the module.                         *)
(***************************************************************************)
Fail == [ok |-> FALSE, s |-> <<>>]
Ok(s) == [ok |-> TRUE, s |-> s]

\* f(*v): the positional arguments that unpacking the object v yields.
\* Iterating a 2-D array yields views of its rows; iterating a 1-D array or
\* a list yields scalars; a scalar or None is not iterable.
Unpack(v, heap) ==
  CASE v.t = "list" -> Ok([i \in 1..Len(v.l) |-> Num(v.l[i])])
    [] v.t = "vec" -> Ok([i \in 1..Len(heap[v.b]) |-> Num(heap[v.b][i])])
    [] v.t = "mat" -> Ok([i \in 1..Len(v.rows) |-> Vec(v.rows[i])])
    [] OTHER -> Fail

Scale(c, a) == [i \in 1..Len(c) |-> c[i] * a]

\* out *= a
IMul(v, a, st) ==
  CASE v.t = "num" -> R(Num(v.n * a), st)
    [] v.t = "vec" ->
         R(v, [st EXCEPT !.heap = [st.heap EXCEPT ![v.b] = Scale(st.heap[v.b], a)]])
    [] v.t = "mat" ->
         R(v, [st EXCEPT !.heap = [k \in 1..Len(st.heap) |->
                 IF \E i \in 1..Len(v.rows) : v.rows[i] = k
                 THEN Scale(st.heap[k], a) ELSE st.heap[k]]])
    [] OTHER -> R(Err("TypeError"), st)

\* out += tmp
IAdd(o, tmp, st) ==
  CASE o.t = "num" /\ tmp.t = "num" -> R(Num(o.n + tmp.n), st)
    [] o.t = "vec" /\ tmp.t = "num" ->
         R(o, [st EXCEPT !.heap = [st.heap EXCEPT ![o.b] =
                 [i \in 1..Len(st.heap[o.b]) |-> st.heap[o.b][i] + tmp.n]]])
    [] o.t = "vec" /\ tmp.t = "vec" ->
         IF Len(st.heap[o.b]) # Len(st.heap[tmp.b])
         THEN R(Err("ValueError"), st)
         ELSE R(o, [st EXCEPT !.heap = [st.heap EXCEPT ![o.b] =
                 [i \in 1..Len(st.heap[o.b]) |-> st.heap[o.b][i] + st.heap[tmp.b][i]]]])
    [] o.t = "num" /\ tmp.t = "vec" ->
         \* a Python scalar has no in-place add: out = out + tmp is a new array
         R(Vec(Len(st.heap) + 1),
           [st EXCEPT !.heap = Append(st.heap,
                 [i \in 1..Len(st.heap[tmp.b]) |-> o.n + st.heap[tmp.b][i]])])
    [] OTHER -> R(Err("TypeError"), st)

(***************************************************************************)
(* The callables.                                                          *)
(***************************************************************************)
Fn(name) == [k |-> "fn", name |-> name]         \* a function of the caller
BoundCall(e) == [k |-> "bound", e |-> e]        \* the bound method e._call
LinCall(a, xc, b, yc) == [k |-> "lin", a |-> a, b |-> b, xc |-> xc, yc |-> yc]
NoAttr == [k |-> "noattr"]                      \* no instance attribute _call

\* The functions callers wrap: lambda p1, p2: p1 / 1.0 / None.
UserFns == {"proj1", "one", "none"}

Entered(name, args, st) ==
  [st EXCEPT !.log = Append(st.log,
      [fn |-> name, args |-> [i \in 1..Len(args) |-> Resolve(args[i], st.heap)]])]

\* Calling a function of the caller, or the zero_ closure of zero().
CallFn(name, args, st) ==
  IF name = "zero_"
  THEN R(Num(0), Entered(name, args, st))
  ELSE IF Len(args) # 2
  THEN R(Err("TypeError"), st)
  ELSE CASE name = "proj1" -> R(args[1], Entered(name, args, st))
         [] name = "one" -> R(Num(1), Entered(name, args, st))
         [] OTHER -> R(None, Entered(name, args, st))

\* A bound method resolved when it is called: it would run whatever the
\* attribute _call of e holds by then (capture after rebinding).
BoundTargetLate(es, e) == IF es[e].call = NoAttr THEN es[e].impl ELSE es[e].call

\* The callable a bound method e._call runs: Vector._call reads _call_impl.
BoundTarget(es, e) == es[e].impl

\* x._call read as an attribute: the instance attribute if _lincomb has set
\* one, the bound method otherwise.
GetCall(es, e) == IF es[e].call = NoAttr THEN BoundCall(e) ELSE es[e].call

RECURSIVE Apply(_, _, _, _, _)

\* lincomb_call without the step tmp *= b of its general branch.
LincombCallUnscaled(es, c, args, st, d) ==
  IF c.a = 0 /\ c.b # 0
  THEN LET r1 == Apply(es, c.yc, args, st, d)
       IN IF IsErr(r1.v) \/ c.b = 1 THEN r1 ELSE IMul(r1.v, c.b, r1.st)
  ELSE IF c.b = 0
  THEN LET r1 == Apply(es, c.xc, args, st, d)
       IN IF IsErr(r1.v) \/ c.a = 1 THEN r1 ELSE IMul(r1.v, c.a, r1.st)
  ELSE LET r1 == Apply(es, c.xc, args, st, d)
           r2 == IF IsErr(r1.v) \/ c.a = 1 THEN r1 ELSE IMul(r1.v, c.a, r1.st)
           r3 == Apply(es, c.yc, args, r2.st, d)
       IN IF IsErr(r2.v) THEN r2
          ELSE IF IsErr(r3.v) THEN r3
          ELSE IAdd(r2.v, r3.v, r3.st)

\* The closure lincomb_call(*x) with its captured a, b, x_old_call, y_old_call.
LincombCall(es, c, args, st, d) ==
  IF c.a = 0 /\ c.b # 0
  THEN LET r1 == Apply(es, c.yc, args, st, d)
       IN IF IsErr(r1.v) \/ c.b = 1 THEN r1 ELSE IMul(r1.v, c.b, r1.st)
  ELSE IF c.b = 0
  THEN LET r1 == Apply(es, c.xc, args, st, d)
       IN IF IsErr(r1.v) \/ c.a = 1 THEN r1 ELSE IMul(r1.v, c.a, r1.st)
  ELSE LET r1 == Apply(es, c.xc, args, st, d)
           r2 == IF IsErr(r1.v) \/ c.a = 1 THEN r1 ELSE IMul(r1.v, c.a, r1.st)
           r3 == Apply(es, c.yc, args, r2.st, d)
           r4 == IF IsErr(r3.v) \/ c.b = 1 THEN r3 ELSE IMul(r3.v, c.b, r3.st)
       IN IF IsErr(r2.v) THEN r2
          ELSE IF IsErr(r4.v) THEN r4
          ELSE IAdd(r2.v, r4.v, r4.st)

\* Vector._call(self, x) as a bound method: exactly one positional argument,
\* which is unpacked into the wrapped callable.  An attribute value shadowing
\* the method is called with the arguments as they are.
MethodCall(es, e, args, st, d) ==
  IF Len(args) # 1
  THEN R(Err("TypeError"), st)
  ELSE LET u == Unpack(args[1], st.heap)
       IN IF ~u.ok THEN R(Err("TypeError"), st)
          ELSE Apply(es, BoundTarget(es, e), u.s, st, d)

\* Calling the callable c with positional arguments args, d frames deep.
Apply(es, c, args, st, d) ==
  IF d >= RecursionLimit
  THEN R(Err("RecursionError"), st)
  ELSE CASE c.k = "fn" -> CallFn(c.name, args, st)
         [] c.k = "bound" -> MethodCall(es, c.e, args, st, d + 1)
         [] c.k = "lin" -> LincombCall(es, c, args, st, d + 1)
         [] OTHER -> R(Err("TypeError"), st)

(***************************************************************************)
(* The domain and the range of the space: IntervalProd([0,0],[1,1]) and    *)
(* RealNumbers().  Both are collaborators outside this file; membership is *)
(* the one the specification gives: a point is NDim scalars in the box.    *)
(***************************************************************************)
InBox(c) == Len(c) = NDim /\ \A i \in 1..Len(c) : DomLo <= c[i] /\ c[i] <= DomHi

\* x in self.domain, x the tuple of positional arguments
TupleInDomain(args) ==
  /\ \A i \in 1..Len(args) : args[i].t = "num"
  /\ InBox([i \in 1..Len(args) |-> args[i].n])

\* x[0] in self.domain
ObjInDomain(v, heap) ==
  CASE v.t = "list" -> InBox(v.l)
    [] v.t = "vec" -> InBox(heap[v.b])
    [] OTHER -> FALSE

\* out in self.range or (isinstance(out, np.ndarray) and out.flat[0] in range)
InRange(v) == v.t \in {"num", "vec", "mat"}

IsArray(v) == v.t \in {"vec", "mat"}

Entries(v, heap) ==
  IF v.t = "vec" THEN {heap[v.b][i] : i \in 1..Len(heap[v.b])}
  ELSE UNION {{heap[v.rows[r]][i] : i \in 1..Len(heap[v.rows[r]])} : r \in 1..Len(v.rows)}

SetMin(S) == CHOOSE m \in S : \A n \in S : m <= n
SetMax(S) == CHOOSE m \in S : \A n \in S : n <= m

Column(v, heap, j) == {heap[v.rows[r]][j] : r \in 1..Len(v.rows)}

\* First case: an (N, d) array of points as first argument.
IsPointList(args, heap) ==
  /\ args[1].t = "mat"
  /\ Len(heap[args[1].rows[1]]) = NDim

\* Second case: d arrays, one per axis.
IsMeshgrid(args) == Len(args) = NDim /\ \A i \in 1..Len(args) : IsArray(args[i])

MinCoords(args, heap) ==
  IF IsPointList(args, heap)
  THEN [j \in 1..NDim |-> SetMin(Column(args[1], heap, j))]
  ELSE [i \in 1..Len(args) |-> SetMin(Entries(args[i], heap))]

MaxCoords(args, heap) ==
  IF IsPointList(args, heap)
  THEN [j \in 1..NDim |-> SetMax(Column(args[1], heap, j))]
  ELSE [i \in 1..Len(args) |-> SetMax(Entries(args[i], heap))]

\* The branch Vector.__call__ takes before it evaluates: the form it accepts
\* the arguments in, or the exception it raises.
Dispatch(args, heap) ==
  IF TupleInDomain(args) THEN "tuple"
  ELSE IF Len(args) = 0 THEN "IndexError"
  ELSE IF ObjInDomain(args[1], heap) THEN "vector"
  ELSE IF ~(IsPointList(args, heap) \/ IsMeshgrid(args)) THEN "TypeError"
  ELSE IF ~(InBox(MinCoords(args, heap)) /\ InBox(MaxCoords(args, heap)))
  THEN "ValueError"
  ELSE IF IsPointList(args, heap) THEN "pointlist" ELSE "meshgrid"

Accepted == {"tuple", "vector", "pointlist", "meshgrid"}

\* Vector.__call__(self, *x) on element e.
VectorCall(es, e, args, st) ==
  LET form == Dispatch(args, st.heap)
  IN IF form \notin Accepted
     THEN R(Err(form), st)
     ELSE LET r == Apply(es, GetCall(es, e), args, st, 0)
          IN IF IsErr(r.v) \/ InRange(r.v) THEN r ELSE R(Err("TypeError"), r.st)

\* One call e(*ds) as its caller observes it: the value returned or the
\* exception raised, the user callables entered with their arguments, and
\* the caller's argument objects as they are after the call.
Outcome(es, e, ds) ==
  LET args == MkArgs(ds)
      r == VectorCall(es, e, args, [heap |-> Flatten(ds), log |-> <<>>])
  IN [v |-> Resolve(r.v, r.st.heap),
      log |-> r.st.log,
      after |-> [i \in 1..Len(ds) |-> Resolve(args[i], r.st.heap)]]

FormOf(ds) == Dispatch(MkArgs(ds), Flatten(ds))

(***************************************************************************)
(* The state: the elements created so far, each with its _call_impl and    *)
(* its instance attribute _call (NoAttr until _lincomb sets it).  snap and *)
(* last are history: what the operands of the latest _lincomb into an      *)
(* element returned when it was formed, and the latest operation.          *)
(***************************************************************************)
Elem(impl) == [impl |-> impl, call |-> NoAttr]

NoSnap == [on |-> FALSE]

\* The single-point calls the dispatch accepts.
PointCalls == {ds \in TupleArgs \cup ListArgs \cup ArrayPointArgs :
                 FormOf(ds) \in {"tuple", "vector"}}

Values(es, e) == [ds \in PointCalls |-> Outcome(es, e, ds).v]

Ids == 1..Len(elems)

Init ==
  /\ elems = <<>>
  /\ snap = <<>>
  /\ last = [op |-> "init"]
  /\ nops = 0

Created(impl, op) ==
  /\ nops < MaxOps
  /\ elems' = Append(elems, Elem(impl))
  /\ snap' = Append(snap, NoSnap)
  /\ last' = op
  /\ nops' = nops + 1

\* space.element(f) for a function f of the caller
Element(f) == Created(Fn(f), [op |-> "element", new |-> Len(elems) + 1])

\* space.element(e) for an element e: "no double wrapping" re-enters element
\* with e._call
ElementOf(e) ==
  Created(GetCall(elems, e), [op |-> "wrap", src |-> e, new |-> Len(elems) + 1])

\* space.zero(), also reached as space.element() / space.element(None)
Zero == Created(Fn("zero_"), [op |-> "zero", new |-> Len(elems) + 1])

\* _lincomb assigning the closure to x instead of out.
LincombIntoX(a, x, b, y, o) ==
  /\ nops < MaxOps
  /\ elems' = [elems EXCEPT
                 ![x].call = LinCall(a, GetCall(elems, x), b, GetCall(elems, y))]
  /\ snap' = [snap EXCEPT ![o] = [on |-> TRUE, a |-> a, b |-> b, x |-> x, y |-> y,
                                  xv |-> Values(elems, x), yv |-> Values(elems, y)]]
  /\ last' = [op |-> "lincomb", a |-> a, b |-> b, x |-> x, y |-> y, out |-> o]
  /\ nops' = nops + 1

\* space._lincomb(a, x, b, y, out)
Lincomb(a, x, b, y, o) ==
  /\ nops < MaxOps
  /\ elems' = [elems EXCEPT
                 ![o].call = LinCall(a, GetCall(elems, x), b, GetCall(elems, y))]
  /\ snap' = [snap EXCEPT ![o] = [on |-> TRUE, a |-> a, b |-> b, x |-> x, y |-> y,
                                  xv |-> Values(elems, x), yv |-> Values(elems, y)]]
  /\ last' = [op |-> "lincomb", a |-> a, b |-> b, x |-> x, y |-> y, out |-> o]
  /\ nops' = nops + 1

\* How _multiply ends.  Its signature is (x, y) with no self: reached as the
\* method space._multiply(x, y) it is handed three arguments; reached as the
\* plain function FunctionSpace._multiply(x, y) it reads x.function, which
\* no element has.  Either way nothing is assigned.
MultiplyRaises(how) == IF how = "method" THEN "TypeError" ELSE "AttributeError"

Multiply(how, x, y) ==
  /\ nops < MaxOps
  /\ last' = [op |-> "multiply", x |-> x, y |-> y, raised |-> MultiplyRaises(how),
              xv |-> Values(elems, x), yv |-> Values(elems, y)]
  /\ nops' = nops + 1
  /\ UNCHANGED <<elems, snap>>

\* Vector.__eq__(self, other); other = 0 stands for an object that is no
\* Vector.  All elements belong to the one space, so the space comparison
\* succeeds and the comparison goes on to read the attribute self._call_imp,
\* which does not exist.
VectorEq(es, i, j) ==
  IF j = i THEN "True"
  ELSE IF j = 0 THEN "False"
  ELSE "AttributeError"

Eq(i, j) ==
  /\ nops < MaxOps
  /\ last' = [op |-> "eq", self |-> i, other |-> j, res |-> VectorEq(elems, i, j)]
  /\ nops' = nops + 1
  /\ UNCHANGED <<elems, snap>>

\* e(*ds)
Call(e, ds) ==
  /\ nops < MaxOps
  /\ last' = [op |-> "call", e |-> e, args |-> ds, form |-> FormOf(ds),
              out |-> Outcome(elems, e, ds)]
  /\ nops' = nops + 1
  /\ UNCHANGED <<elems, snap>>

Next ==
  \/ \E f \in UserFns : Element(f)
  \/ \E e \in Ids : ElementOf(e)
  \/ Zero
  \/ \E a \in Coeffs, b \in Coeffs, x \in Ids, y \in Ids, o \in Ids : Lincomb(a, x, b, y, o)
  \/ \E how \in {"method", "function"}, x \in Ids, y \in Ids : Multiply(how, x, y)
  \/ \E i \in Ids, j \in Ids \cup {0} : Eq(i, j)
  \/ \E e \in Ids, ds \in ArgLists : Call(e, ds)

Spec == Init /\ [][Next]_vars

(***************************************************************************)
(* Properties.                                                             *)
(***************************************************************************)
IsNum(v) == v.t = "num"

\* The element o was the output of a _lincomb and still carries its closure.
Combined(o) == snap[o].on

\* a*x(t) + b*y(t) from what x and y returned when the combination was formed
Expected(o, ds) == Num(snap[o].a * snap[o].xv[ds].n + snap[o].b * snap[o].yv[ds].n)

BothReturned(o, ds) == IsNum(snap[o].xv[ds]) /\ IsNum(snap[o].yv[ds])

\* C1: after _lincomb(a, x, b, y, out) with out distinct from x and y, a call
\* out(t) at a point t of the domain, for which x(t) and y(t) returned field
\* scalars, returns a*x(t) + b*y(t); in every coefficient branch (0 and 1
\* included), and in every later state.
C1_LincombValue ==
  \A o \in Ids :
    (Combined(o) /\ o \notin {snap[o].x, snap[o].y}) =>
      \A ds \in PointCalls :
        BothReturned(o, ds) => Outcome(elems, o, ds).v = Expected(o, ds)

\* _lincomb has combined two different elements x and y, with different
\* non-zero coefficients, into a third one; at some point x and y returned
\* different values, at some point both returned non-zero ones.
C1_Witness ==
  \E o \in Ids :
    /\ Combined(o)
    /\ o \notin {snap[o].x, snap[o].y}
    /\ snap[o].x # snap[o].y
    /\ snap[o].a > 0 /\ snap[o].b > 0 /\ snap[o].a # snap[o].b
    /\ \E ds \in PointCalls :
         /\ BothReturned(o, ds)
         /\ snap[o].xv[ds] # snap[o].yv[ds]
         /\ Outcome(elems, o, ds).v = Expected(o, ds)
    /\ \E ds \in PointCalls :
         /\ BothReturned(o, ds)
         /\ snap[o].xv[ds].n > 0 /\ snap[o].yv[ds].n > 0
         /\ Outcome(elems, o, ds).v = Expected(o, ds)

\* C2: when out is x and/or y, the combination uses what x and y returned
\* before out was rebound (after _lincomb(2, x, 3, x, out=x), x(t) is
\* 5 * original x(t)), each aliased combination builds on the previous one,
\* and no call of the element ends in unbounded recursion.
C2_AliasedLincomb ==
  \A o \in Ids :
    (Combined(o) /\ o \in {snap[o].x, snap[o].y}) =>
      \A ds \in ArgLists :
        LET v == Outcome(elems, o, ds).v
        IN /\ v # Err("RecursionError")
           /\ (ds \in PointCalls /\ BothReturned(o, ds)) => v = Expected(o, ds)

\* An element combined with itself twice: its second closure captured the
\* first one, and it returns a non-zero multiple of a multiple.
C2_Witness ==
  \E o \in Ids :
    /\ Combined(o) /\ snap[o].x = o /\ snap[o].y = o
    /\ elems[o].call.xc.k = "lin"
    /\ snap[o].a > 1 /\ snap[o].b > 1
    /\ \E ds \in PointCalls :
         /\ BothReturned(o, ds)
         /\ snap[o].xv[ds].n > 1
         /\ Outcome(elems, o, ds).v = Expected(o, ds)

\* C3: a call of the zero element at a point of the domain, in either
\* accepted single-point form, returns the zero of the field.
C3_ZeroReturnsZero ==
  (/\ last.op = "call"
   /\ elems[last.e] = Elem(Fn("zero_"))
   /\ last.form \in {"tuple", "vector"})
  => last.out.v = Num(0)

\* C4: on the 2-dimensional domain the tuple-form call f(p1, p2) of an
\* element wrapping fn is accepted, invokes fn, and returns what the
\* vector-form call f([p1, p2]) returns.
C4_TupleAsVector ==
  (/\ last.op = "call"
   /\ elems[last.e].impl.k = "fn" /\ elems[last.e].call = NoAttr
   /\ last.form = "tuple")
  => LET vec == Outcome(elems, last.e, <<Lst(<<last.args[1].n, last.args[2].n>>)>>)
     IN /\ Len(last.out.log) = 1
        /\ last.out.log = vec.log
        /\ last.out.v = vec.v

\* The bounding box of all arrays supplied in a call: of the rows of a
\* single (N, d) array, or of d arrays taken one per axis.
BoxMin(ds) ==
  IF Len(ds) = 1
  THEN [j \in 1..NDim |-> SetMin({ds[1].c[r][j] : r \in 1..Len(ds[1].c)})]
  ELSE [i \in 1..Len(ds) |-> SetMin(Entries(MkArgs(ds)[i], Flatten(ds)))]

BoxMax(ds) ==
  IF Len(ds) = 1
  THEN [j \in 1..NDim |-> SetMax({ds[1].c[r][j] : r \in 1..Len(ds[1].c)})]
  ELSE [i \in 1..Len(ds) |-> SetMax(Entries(MkArgs(ds)[i], Flatten(ds)))]

Vectorized == PointListArgs \cup MeshArgs \cup Mesh2Args

\* C5: a vectorized call invokes the wrapped callable only if the
\* coordinate-wise minimum and maximum over all arrays supplied lie in the
\* domain; otherwise it raises ValueError without invoking the callable.
C5_BoundingBox ==
  (/\ last.op = "call"
   /\ last.args \in Vectorized
   /\ last.form \notin {"tuple", "vector"})
  => IF InBox(BoxMin(last.args)) /\ InBox(BoxMax(last.args))
     THEN TRUE
     ELSE last.out.v = Err("ValueError") /\ last.out.log = <<>>

\* C6: space.element(space.element(f)) == space.element(f) is True, and the
\* comparison of two distinct elements returns a boolean.
C6_WrapIdempotence ==
  (last.op = "eq" /\ last.other # 0) =>
    /\ last.res \in {"True", "False"}
    /\ LET B == elems[last.self]
           U == elems[last.other]
       IN (/\ U.impl.k = "fn" /\ U.call = NoAttr /\ B.call = NoAttr
           /\ B.impl.k = "bound"
           /\ elems[B.impl.e] = U) => last.res = "True"

\* C7: element(e) adds no call layer: for every argument list, calling the
\* new element enters the same callables with the same arguments and gives
\* the same result or error as calling e.
C7_NoAddedLayer ==
  last.op = "wrap" =>
    \A ds \in ArgLists : Outcome(elems, last.new, ds) = Outcome(elems, last.src, ds)

\* C8: _multiply(x, y) completes without error; afterwards y(t) is the
\* product of what x and y returned before, and x returns what it did.
C8_Multiply ==
  last.op = "multiply" =>
    /\ last.raised = "none"
    /\ \A ds \in PointCalls :
         (IsNum(last.xv[ds]) /\ IsNum(last.yv[ds])) =>
           /\ Outcome(elems, last.y, ds).v = Num(last.xv[ds].n * last.yv[ds].n)
           /\ (last.x # last.y => Outcome(elems, last.x, ds).v = last.xv[ds])

\* C9: a _lincomb whose out is distinct from x and y changes what no other
\* element returns, for any argument list: x, y and the elements made
\* earlier by element(x) or element(out) included.
C9_LincombFrame ==
  [][\A e \in Ids :
       (/\ last'.op = "lincomb" /\ nops' = nops + 1
        /\ last'.out \notin {last'.x, last'.y}
        /\ e # last'.out)
       => \A ds \in ArgLists : Outcome(elems', e, ds) = Outcome(elems, e, ds)]_vars

\* A _lincomb into out has acted while an element made earlier by
\* element(out) exists, and out no longer returns what it did.
C9_Witness ==
  /\ last.op = "lincomb"
  /\ last.out \notin {last.x, last.y}
  /\ \E w \in Ids : w # last.out /\ elems[w].impl = BoundCall(last.out)
  /\ \E ds \in PointCalls :
       /\ IsNum(Outcome(elems, last.out, ds).v)
       /\ Outcome(elems, last.out, ds).v
            # Outcome([elems EXCEPT ![last.out].call = NoAttr], last.out, ds).v

\* a*X + b*Y on observed values, arrays taken entry by entry
Entry(v, i) == IF v.t = "num" THEN v.n ELSE v.c[i]

Combine(a, xv, b, yv) ==
  IF xv.t = "num" /\ yv.t = "num"
  THEN Num(a * xv.n + b * yv.n)
  ELSE LET n == IF xv.t = "num" THEN Len(yv.c) ELSE Len(xv.c)
       IN [t |-> "arr", c |-> [i \in 1..n |-> a * Entry(xv, i) + b * Entry(yv, i)]]

Returned(v) == v.t \in {"num", "arr"}

\* C10: evaluating a combined element writes to no array of the caller, and
\* returns a*x(t) + b*y(t) also when x or y returns its own argument.
C10_NoArgumentMutation ==
  (/\ last.op = "call"
   /\ Combined(last.e)
   /\ last.e \notin {snap[last.e].x, snap[last.e].y}
   /\ elems[snap[last.e].x].call = NoAttr
   /\ elems[snap[last.e].y].call = NoAttr)
  => LET xo == Outcome(elems, snap[last.e].x, last.args).v
         yo == Outcome(elems, snap[last.e].y, last.args).v
     IN /\ last.out.after = last.args
        /\ (Returned(xo) /\ Returned(yo)) =>
             last.out.v = Combine(snap[last.e].a, xo, snap[last.e].b, yo)

====
